---- MODULE Spec2Model ----
(***************************************************************************)
(* The simulation core of chilled-snake (src/script.js): the game state    *)
(* object, the direction queue, the step engine with its collision rules,  *)
(* the grid growth controller, the food spawner and the frame-driven step  *)
(* scheduler.  One record, `state', mirrors the script's `state' object;   *)
(* every handler of the script is an operator from a state record to the   *)
(* state record it leaves behind, and an action of the model applies one   *)
(* handler to the current state.                                           *)
(*                                                                         *)
(* Left out: canvas drawing, the DOM menu and its two "populated" flags,   *)
(* the high-score list in localStorage, fullscreen, and the raw touch      *)
(* coordinates (a swipe or tap is one gesture with its displacement).      *)
(***************************************************************************)
EXTENDS Integers, Sequences, FiniteSets, TLC

VARIABLES
    state,     \* the script's `state' object
    clock,     \* the browser's clock in ms: performance.now() and frame timestamps
    last,      \* history: the last handler that changed anything, and its outcome
    deadline   \* the clock value at which the observed window ends (never changes)

vars == <<state, clock, last, deadline>>

----------------------------------------------------------------------------
(* Program constants *)

BASE_GRID == 15
TILE == 30
EAT_FX_MS == 360
SHAKE_MS == 150
BaseStepMs == 150
StartGrid == 8
WelcomeGrid == 10
MaxGrid == 36
GridIncrement == 2
QueueCap == 2
FillNum == 2
FillDen == 5
SwipeThresh == 24
EatWaveMs == 413

(* Bounds of the model *)

ShortFrame == 150
LongFrame == 4 * ShortFrame
RootFrames == 9
SeedFrames == 4

\* JavaScript's null.
Null == <<>>

----------------------------------------------------------------------------
(* Utilities *)

\* posKey(x, y): the string x + "," + y.
posKey(x, y) == ToString(x) \o "," \o ToString(y)

Cell(x, y) == [x |-> x, y |-> y]

Right == [x |-> 1, y |-> 0]
Left  == [x |-> -1, y |-> 0]
Up    == [x |-> 0, y |-> -1]
Down  == [x |-> 0, y |-> 1]
Dirs  == {Right, Left, Up, Down}

\* The keys of the Set built by  snake.forEach(p => occupied.add(posKey(p.x, p.y))).
KeysOf(snake) == { posKey(snake[i].x, snake[i].y) : i \in 1..Len(snake) }

\* (Math.random() * grid) | 0  for a random number r = num/den in [0, 1).
RandCoord(r, grid) == (r.num * grid) \div r.den

\* 150 * (15 / grid), kept as the exact fraction num/den.
StepMsOf(grid) == [num |-> BaseStepMs * 15, den |-> grid]

InitialSnake == << Cell(3, 3), Cell(2, 3), Cell(1, 3) >>

----------------------------------------------------------------------------
(* Input handling *)

\* Variant: a repetition of the reference direction is queued again.
queueDirRepeats(s, nd) ==
    IF nd = Null THEN s
    ELSE LET n    == Len(s.queuedDirs)
             ref  == IF n > 0 THEN s.queuedDirs[n] ELSE s.dir
         IN  IF ref.x + nd.x = 0 /\ ref.y + nd.y = 0 THEN s
             ELSE IF n >= QueueCap THEN s
             ELSE [s EXCEPT !.queuedDirs = Append(@, nd)]

\* Variant: no reversal test.
queueDirAnyTurn(s, nd) ==
    IF nd = Null THEN s
    ELSE LET n    == Len(s.queuedDirs)
             ref  == IF n > 0 THEN s.queuedDirs[n] ELSE s.dir
         IN  IF ref.x = nd.x /\ ref.y = nd.y THEN s
             ELSE IF n >= QueueCap THEN s
             ELSE [s EXCEPT !.queuedDirs = Append(@, nd)]

\* Variant: the reversal test always compares with the active direction.
queueDirAgainstActive(s, nd) ==
    IF nd = Null THEN s
    ELSE LET n    == Len(s.queuedDirs)
             last1 == IF n > 0 THEN s.queuedDirs[n] ELSE s.dir
         IN  IF s.dir.x + nd.x = 0 /\ s.dir.y + nd.y = 0 THEN s
             ELSE IF last1.x = nd.x /\ last1.y = nd.y THEN s
             ELSE IF n >= QueueCap THEN s
             ELSE [s EXCEPT !.queuedDirs = Append(@, nd)]

\* Variant: the capacity test lets one more direction in.
queueDirOneMore(s, nd) ==
    IF nd = Null THEN s
    ELSE LET n    == Len(s.queuedDirs)
             ref  == IF n > 0 THEN s.queuedDirs[n] ELSE s.dir
         IN  IF ref.x + nd.x = 0 /\ ref.y + nd.y = 0 THEN s
             ELSE IF ref.x = nd.x /\ ref.y = nd.y THEN s
             ELSE IF n > QueueCap THEN s
             ELSE [s EXCEPT !.queuedDirs = Append(@, nd)]

\* if (!d) return; compare with the last queued direction, or with the active
\* one if nothing is queued; refuse a reversal, a repetition, a third entry.
queueDir(s, nd) ==
    IF nd = Null THEN s
    ELSE LET n    == Len(s.queuedDirs)
             ref  == IF n > 0 THEN s.queuedDirs[n] ELSE s.dir
         IN  IF ref.x + nd.x = 0 /\ ref.y + nd.y = 0 THEN s
             ELSE IF ref.x = nd.x /\ ref.y = nd.y THEN s
             ELSE IF n >= QueueCap THEN s
             ELSE [s EXCEPT !.queuedDirs = Append(@, nd)]

----------------------------------------------------------------------------
(* Game lifecycle *)

\* spawnFood(): the draw (rx, ry) that ends the retry loop, i.e. the first draw
\* whose cell is not in the occupancy set.
FoodAt(s, rx, ry) == Cell(RandCoord(rx, s.grid), RandCoord(ry, s.grid))

spawnFood(s, now, rx, ry) ==
    [s EXCEPT !.food = FoodAt(s, rx, ry), !.foodFxAt = now]

\* Variant: the pending turns of the ended run survive the reset.
resetGameKeepQueue(s, now, rx, ry) ==
    LET s1 == [s EXCEPT !.grid = StartGrid,
                        !.stepMs = StepMsOf(StartGrid),
                        !.snake = InitialSnake,
                        !.dir = Right,
                        !.occupied = KeysOf(InitialSnake)]
        s2 == spawnFood(s1, now, rx, ry)
    IN  [s2 EXCEPT !.score = 0,
                   !.lastStepAt = 0,
                   !.gameOver = FALSE,
                   !.ateOnLastStep = FALSE,
                   !.runStartAt = now,
                   !.endedAt = Null,
                   !.started = TRUE,
                   !.foodFxAt = now,
                   !.eatWave = Null,
                   !.shakeUntil = Null]

resetGame(s, now, rx, ry) ==
    LET s1 == [s EXCEPT !.grid = StartGrid,
                        !.stepMs = StepMsOf(StartGrid),
                        !.snake = InitialSnake,
                        !.dir = Right,
                        !.queuedDirs = << >>,
                        !.occupied = KeysOf(InitialSnake)]
        s2 == spawnFood(s1, now, rx, ry)
    IN  [s2 EXCEPT !.score = 0,
                   !.lastStepAt = 0,
                   !.gameOver = FALSE,
                   !.ateOnLastStep = FALSE,
                   !.runStartAt = now,
                   !.endedAt = Null,
                   !.started = TRUE,
                   !.foodFxAt = now,
                   !.eatWave = Null,
                   !.shakeUntil = Null]

resetToWelcome(s, now, rx, ry) ==
    LET s1 == [s EXCEPT !.grid = WelcomeGrid,
                        !.stepMs = StepMsOf(WelcomeGrid),
                        !.snake = InitialSnake,
                        !.dir = Right,
                        !.queuedDirs = << >>,
                        !.occupied = KeysOf(InitialSnake)]
        s2 == spawnFood(s1, now, rx, ry)
    IN  [s2 EXCEPT !.score = 0,
                   !.lastStepAt = 0,
                   !.gameOver = FALSE,
                   !.ateOnLastStep = FALSE,
                   !.runStartAt = now,
                   !.endedAt = Null,
                   !.started = FALSE,
                   !.foodFxAt = Null,
                   !.eatWave = Null,
                   !.shakeUntil = Null]

\* The object literal `const state = {...}' the script starts from.
StateLiteral ==
    [ grid |-> BASE_GRID, stepMs |-> StepMsOf(BASE_GRID), snake |-> << >>,
      dir |-> Right, queuedDirs |-> << >>, food |-> Null, score |-> 0,
      lastStepAt |-> 0, gameOver |-> FALSE, ateOnLastStep |-> FALSE,
      runStartAt |-> 0, endedAt |-> Null, started |-> FALSE,
      foodFxAt |-> Null, eatWave |-> Null, occupied |-> {}, shakeUntil |-> Null ]

----------------------------------------------------------------------------
(* Update step *)

\* Variant: the newest queued direction is taken first.
consumeNewestFirst(s) ==
    IF Len(s.queuedDirs) > 0
    THEN [s EXCEPT !.dir = s.queuedDirs[Len(s.queuedDirs)],
                   !.queuedDirs = SubSeq(@, 1, Len(@) - 1)]
    ELSE s

consumeDirectionQueue(s) ==
    IF Len(s.queuedDirs) > 0
    THEN [s EXCEPT !.dir = Head(s.queuedDirs), !.queuedDirs = Tail(@)]
    ELSE s

nextHead(s) == Cell(s.snake[1].x + s.dir.x, s.snake[1].y + s.dir.y)

\* Variant: the right and bottom walls lie one cell further out.
isWallCollisionOneOut(s, nx, ny) == nx < 0 \/ ny < 0 \/ nx > s.grid \/ ny > s.grid

isWallCollision(s, nx, ny) == nx < 0 \/ ny < 0 \/ nx >= s.grid \/ ny >= s.grid

isSelfCollision(s, nx, ny, willEat) ==
    LET tail == s.snake[Len(s.snake)]
        hits == posKey(nx, ny) \in s.occupied
    IN  IF ~willEat /\ tail.x = nx /\ tail.y = ny THEN FALSE ELSE hits

\* Variant: growth without the ceiling.
GrowthDueNoCeiling(s) == Len(s.snake) * FillDen >= s.grid * s.grid * FillNum

\* snake.length >= grid ** 2 * 0.4, with 0.4 as the fraction 2/5.
GrowthDue(s) == Len(s.snake) * FillDen >= s.grid * s.grid * FillNum /\ s.grid < MaxGrid

\* Variant: the grid grows around cells that stay where they were.
growGridNoShift(s) ==
    IF GrowthDue(s)
    THEN [s EXCEPT !.grid = @ + GridIncrement,
                   !.stepMs = StepMsOf(s.grid + GridIncrement),
                   !.occupied = KeysOf(s.snake)]
    ELSE s

\* Variant: the grid grows and the tick duration stays.
growGridKeepPace(s) ==
    IF GrowthDue(s)
    THEN LET shifted == [i \in 1..Len(s.snake) |->
                            Cell(s.snake[i].x + 1, s.snake[i].y + 1)]
         IN  [s EXCEPT !.grid = @ + GridIncrement,
                       !.snake = shifted,
                       !.occupied = KeysOf(shifted)]
    ELSE s

growGridIfNeeded(s) ==
    IF GrowthDue(s)
    THEN LET shifted == [i \in 1..Len(s.snake) |->
                            Cell(s.snake[i].x + 1, s.snake[i].y + 1)]
         IN  [s EXCEPT !.grid = @ + GridIncrement,
                       !.stepMs = StepMsOf(s.grid + GridIncrement),
                       !.snake = shifted,
                       !.occupied = KeysOf(shifted)]
    ELSE s

applyEatEffects(s, cx, cy, now) ==
    [s EXCEPT !.eatWave = [x |-> cx, y |-> cy, start |-> now]]

\* step(), "move head": unshift the new head and add its key.
moveHead(s, nh) ==
    [s EXCEPT !.snake = <<nh>> \o @,
              !.occupied = @ \cup {posKey(nh.x, nh.y)}]

\* Variant: eating does not count.
eatFoodNoScore(s, now, rx, ry) ==
    LET s3 == growGridIfNeeded(s)
        cx == s3.food.x * TILE + TILE \div 2
        cy == s3.food.y * TILE + TILE \div 2
        s4 == applyEatEffects(s3, cx, cy, now)
        s5 == spawnFood(s4, now, rx, ry)
    IN  [s5 EXCEPT !.ateOnLastStep = TRUE]

\* step(), the eating branch.  TILE / 2 is 15: TILE is even.
eatFood(s, now, rx, ry) ==
    LET s3 == growGridIfNeeded([s EXCEPT !.score = @ + 1])
        cx == s3.food.x * TILE + TILE \div 2
        cy == s3.food.y * TILE + TILE \div 2
        s4 == applyEatEffects(s3, cx, cy, now)
        s5 == spawnFood(s4, now, rx, ry)
    IN  [s5 EXCEPT !.ateOnLastStep = TRUE]

\* Variant: the tail stays in the snake.
dropTailKeep(s) == s

\* step(), the other branch: pop the tail and delete its key.
dropTail(s) ==
    LET n == Len(s.snake)
        tail == s.snake[n]
    IN  [s EXCEPT !.snake = SubSeq(@, 1, n - 1),
                  !.occupied = @ \ {posKey(tail.x, tail.y)}]

\* Variant: the collision also clears the score.
endRunClearScore(s, now) ==
    [s EXCEPT !.gameOver = TRUE, !.endedAt = now, !.shakeUntil = now + SHAKE_MS,
              !.score = 0]

\* step(), the collision branch.
endRun(s, now) ==
    [s EXCEPT !.gameOver = TRUE, !.endedAt = now, !.shakeUntil = now + SHAKE_MS]

step(s, now, rx, ry) ==
    LET s1 == consumeDirectionQueue([s EXCEPT !.ateOnLastStep = FALSE])
        nh == nextHead(s1)
        willEat == nh.x = s1.food.x /\ nh.y = s1.food.y
    IN  IF isWallCollision(s1, nh.x, nh.y) \/ isSelfCollision(s1, nh.x, nh.y, willEat)
        THEN endRun(s1, now)
        ELSE IF willEat
             THEN eatFood(moveHead(s1, nh), now, rx, ry)
             ELSE dropTail(moveHead(s1, nh))

----------------------------------------------------------------------------
(* Handlers: each takes the world w = [state, clock, last] and its inputs, *)
(* and yields the world it leaves; `spawned' tells whether the handler ran *)
(* spawnFood(), whose retry loop ends with the draw (rx, ry).              *)

FoodIsFree(s) == posKey(s.food.x, s.food.y) \notin s.occupied

Unchanged(u) == [state |-> u.state, clock |-> u.clock, last |-> u.last, spawned |-> FALSE]

\* The record also tells what the run that resetGame() replaces had come to.
ResetW(w, rx, ry) ==
    LET s == resetGame(w.state, w.clock, rx, ry)
    IN  [state |-> s, clock |-> w.clock,
         last |-> [op |-> "resetGame",
                   from |-> [started |-> w.state.started,
                             gameOver |-> w.state.gameOver,
                             score |-> w.state.score,
                             grid |-> w.state.grid,
                             queued |-> Len(w.state.queuedDirs)]],
         spawned |-> TRUE]

QueueDirW(w, nd) ==
    LET s == queueDir(w.state, nd)
    IN  IF s = w.state THEN Unchanged(w)
        ELSE [state |-> s, clock |-> w.clock,
              last |-> [op |-> "queueDir", nd |-> nd], spawned |-> FALSE]

keyDir(k) ==
    IF k = "arrowup" \/ k = "w" THEN Up
    ELSE IF k = "arrowdown" \/ k = "s" THEN Down
    ELSE IF k = "arrowleft" \/ k = "a" THEN Left
    ELSE IF k = "arrowright" \/ k = "d" THEN Right
    ELSE Null

StartKeys == {" ", "spacebar", "space", "arrowup", "arrowdown", "arrowleft", "arrowright"}

\* k is e.key.toLowerCase().
onKeyDown(w, k, rx, ry) ==
    IF k = "f" THEN Unchanged(w)
    ELSE IF keyDir(k) # Null THEN QueueDirW(w, keyDir(k))
    ELSE IF k \in StartKeys /\ (w.state.gameOver \/ ~w.state.started) THEN ResetW(w, rx, ry)
    ELSE Unchanged(w)

\* A click inside #playBtn.
onPlayClick(w, rx, ry) == ResetW(w, rx, ry)

Abs(n) == IF n < 0 THEN -n ELSE n

\* A touch that started at some point and ended displaced by (dx, dy).
onTouchEnd(w, dx, dy, rx, ry) ==
    IF Abs(dx) < SwipeThresh /\ Abs(dy) < SwipeThresh
    THEN IF w.state.gameOver \/ ~w.state.started THEN ResetW(w, rx, ry) ELSE Unchanged(w)
    ELSE LET nd == IF Abs(dx) > Abs(dy)
                   THEN (IF dx > 0 THEN Right ELSE Left)
                   ELSE (IF dy > 0 THEN Down ELSE Up)
         IN  QueueDirW(w, nd)

\* What one step() did, told from the state before and the state after it;
\* `late' tells that two tick durations or more had passed since the last tick.
StepRecord(s, r) ==
    LET s1 == consumeDirectionQueue(s)
        nh == nextHead(s1)
        n  == Len(s.snake)
    IN  [op |-> "step",
         nh |-> nh,
         dir |-> s1.dir,
         willEat |-> (nh = s.food),
         wall |-> isWallCollision(s, nh.x, nh.y),
         onTail |-> (nh = s.snake[n]),
         onBody |-> (\E i \in 1..(n - 1) : s.snake[i] = nh),
         collided |-> r.gameOver,
         grew |-> (r.grid # s.grid),
         late |-> ((r.lastStepAt - s.lastStepAt) * s.stepMs.den >= 2 * s.stepMs.num)]

\* renderEatWave(): the wave is dropped once it is Math.floor(EAT_FX_MS * 1.15) ms old.
renderEatWave(s, now) ==
    IF s.eatWave # Null /\ now - s.eatWave.start >= EatWaveMs
    THEN [s EXCEPT !.eatWave = Null] ELSE s

\* Variant: the scheduler does not look at gameOver.
TickDueWhenOver(s, ts) ==
    s.started /\ (ts - s.lastStepAt) * s.stepMs.den >= s.stepMs.num

\* ts - lastStepAt >= stepMs, with stepMs the fraction num/den.
TickDue(s, ts) ==
    s.started /\ ~s.gameOver /\ (ts - s.lastStepAt) * s.stepMs.den >= s.stepMs.num

\* Variant: a frame that comes two tick durations late catches up with a second step().
loopCatchUp(w, ts, rx, ry) ==
    LET s0 == IF w.state.lastStepAt = 0 THEN [w.state EXCEPT !.lastStepAt = ts] ELSE w.state
    IN  IF TickDue(s0, ts)
        THEN LET s1 == [s0 EXCEPT !.lastStepAt = ts]
                 r1 == step(s1, ts, rx, ry)
                 r  == IF ~r1.gameOver /\ ~r1.ateOnLastStep
                          /\ (ts - s0.lastStepAt) * s0.stepMs.den >= 2 * s0.stepMs.num
                       THEN step(r1, ts, rx, ry) ELSE r1
             IN  [state |-> renderEatWave(r, ts), clock |-> ts,
                  last |-> StepRecord(s0, r),
                  spawned |-> r.ateOnLastStep]
        ELSE [state |-> renderEatWave(s0, ts), clock |-> ts,
              last |-> [op |-> "frame"], spawned |-> FALSE]

loop(w, ts, rx, ry) ==
    LET s0 == IF w.state.lastStepAt = 0 THEN [w.state EXCEPT !.lastStepAt = ts] ELSE w.state
    IN  IF TickDue(s0, ts)
        THEN LET s1 == [s0 EXCEPT !.lastStepAt = ts]
                 r  == step(s1, ts, rx, ry)
             IN  [state |-> renderEatWave(r, ts), clock |-> ts,
                  last |-> StepRecord(s0, r),
                  spawned |-> r.ateOnLastStep]
        ELSE [state |-> renderEatWave(s0, ts), clock |-> ts,
              last |-> [op |-> "frame"], spawned |-> FALSE]

----------------------------------------------------------------------------
(* Inputs *)

\* Values of Math.random(), as fractions.
RandVals == { [num |-> 0, den |-> 1], [num |-> 3, den |-> 8], [num |-> 1, den |-> 2] }

Keys == {"arrowup", "arrowdown", "arrowleft", "arrowright", " ", "f", "x"}

Gestures == { <<0, 0>>, <<-30, 10>>, <<30, -30>> }

FrameDeltas == {ShortFrame, LongFrame}

World == [state |-> state, clock |-> clock, last |-> last]

\* The retry loop of spawnFood() ends with a draw whose cell is not occupied.
Becomes(r) ==
    /\ r.spawned => FoodIsFree(r.state)
    /\ state' = r.state
    /\ clock' = r.clock
    /\ last' = r.last
    /\ UNCHANGED deadline

----------------------------------------------------------------------------
(* The state after bootstrap(): resetToWelcome() has run. *)

BootClock == 150

Booted(rx, ry) == resetToWelcome(StateLiteral, BootClock, rx, ry)

AnyRand == CHOOSE r \in RandVals : TRUE

----------------------------------------------------------------------------
(* Recorded play.  A recording is a sequence of moves [d, f]: the player    *)
(* presses direction d, the next frame comes ReplayFrame ms later and       *)
(* ticks, and if that tick eats, the new food lands on cell f (or, with f   *)
(* Null, on the cell right ahead of the next move).  Replaying a recording  *)
(* through the handlers gives states the program reaches in play; they      *)
(* serve as further starting points, so that long snakes, grown grids and   *)
(* the grid ceiling lie within the explored window.                         *)

ReplayFrame == 300

\* A draw that makes (Math.random() * grid) | 0 equal to v: the middle of cell
\* v's interval, (v + 0.5) / grid.  (The lower end v / grid would not do: as a
\* double, 15 / 22 * 22 is 14.999999999999998, which is cell 14.)
DrawFor(v, grid) == [num |-> 2 * v + 1, den |-> 2 * grid]

ReplayMove(w, d, f, dNext) ==
    LET w1    == QueueDirW(w, d)
        ts    == w1.clock + ReplayFrame
        probe == loop(w1, ts, AnyRand, AnyRand).state
        to    == IF f # Null THEN f
                 ELSE Cell(probe.snake[1].x + dNext.x, probe.snake[1].y + dNext.y)
        r     == loop(w1, ts, DrawFor(to.x, probe.grid), DrawFor(to.y, probe.grid))
    IN  [state |-> r.state, clock |-> r.clock, last |-> r.last,
         ok |-> /\ w.ok
                /\ r.last.op = "step"
                /\ ~r.state.gameOver
                /\ r.spawned => (FoodIsFree(r.state) /\ ~isWallCollision(r.state, to.x, to.y))]

\* Moves i..n of the recording, applied in order (split in halves; the world
\* between the halves is a value of a one-element set).
RECURSIVE Replay(_, _, _, _)
Replay(w, rec, i, n) ==
    IF i > n THEN w
    ELSE IF i = n
    THEN ReplayMove(w, rec[i].d, rec[i].f, IF i < Len(rec) THEN rec[i + 1].d ELSE rec[i].d)
    ELSE CHOOSE out \in { Replay(v, rec, (i + n) \div 2 + 1, n) :
                             v \in { Replay(w, rec, i, (i + n) \div 2) } } : TRUE

\* Play starts: bootstrap, a click on Play with the first food on cell f0, and
\* the first frame, which only records its timestamp.
Started(f0) ==
    LET w0 == [state |-> Booted(AnyRand, AnyRand), clock |-> BootClock,
               last |-> [op |-> "bootstrap"]]
        w1 == onPlayClick(w0, DrawFor(f0.x, StartGrid), DrawFor(f0.y, StartGrid))
        w2 == loop(w1, w1.clock + ReplayFrame, AnyRand, AnyRand)
    IN  [state |-> w2.state, clock |-> w2.clock, last |-> w2.last,
         ok |-> FoodIsFree(w1.state)]

M(d, f) == [d |-> d, f |-> f]

\* n moves in direction d.
RECURSIVE Run(_, _)
Run(d, n) == IF n = 0 THEN << >> ELSE <<M(d, Null)>> \o Run(d, n - 1)

\* First food on (4, 4).  The snake eats it, walks a square back onto its own
\* tail cell (4, 4) (move 6), eats again (move 7), walks on (move 8), eats a
\* third time, which puts the food on (4, 4), and comes to stand next to its
\* tail, now on (4, 4) (move 11).
LoopPlay ==
    << M(Right, Null), M(Down, Cell(3, 4)), M(Right, Null), M(Down, Null),
       M(Left, Null), M(Up, Null), M(Left, Cell(4, 2)), M(Up, Null),
       M(Up, Null), M(Right, Cell(4, 4)), M(Down, Null) >>

\* First food on (0, 4), never eaten.  The snake walks into the bottom right
\* corner (move 8), or into the top left corner.
CornerPlay == Run(Right, 4) \o Run(Down, 4)

CornerPlay2 == Run(Up, 3) \o Run(Left, 3)

\* First food on (4, 3).  The snake eats it at once (the next food lands on
\* (0, 0)) and walks on to the right wall.
WallPlay == << M(Right, Cell(0, 0)) >> \o Run(Right, 3)

\* An outward spiral around the initial snake that eats on every tick.
SpiralTurn(k) ==
    IF k % 4 = 0 THEN Down ELSE IF k % 4 = 1 THEN Left ELSE IF k % 4 = 2 THEN Up ELSE Right

RECURSIVE Spiral(_, _)
Spiral(k, runs) ==
    IF k >= runs THEN << >> ELSE Run(SpiralTurn(k), 3 + k \div 2) \o Spiral(k + 1, runs)

SpiralRuns == 42

SpiralPlay == Spiral(0, SpiralRuns)

\* After so many spiral ticks the next tick eats and: grows the grid 8 -> 10;
\* grows it 34 -> 36; leaves it at 36 although the fill is above 0.4.
SpiralSnapshots == {22, 459, 515}

LoopSeed(n) == Replay(Started(Cell(4, 4)), LoopPlay, 1, n)

SpiralSeed(n) == Replay(Started(Cell(3, 4)), SpiralPlay, 1, n)

CornerSeeds ==
    { Replay(Started(Cell(0, 4)), CornerPlay, 1, Len(CornerPlay)),
      Replay(Started(Cell(0, 4)), CornerPlay2, 1, Len(CornerPlay2)),
      Replay(Started(Cell(4, 3)), WallPlay, 1, Len(WallPlay)) }

\* Snapshots of play in which the head has not yet stepped onto the tail's cell.
Seeds == { SpiralSeed(n) : n \in SpiralSnapshots } \cup CornerSeeds

\* Snapshots of LoopPlay after the head stepped onto the tail's cell (move 6).
HoleSeeds == { LoopSeed(6), LoopSeed(8) }

\* The snapshot of LoopPlay with the food under the tail.
TailSeeds == { LoopSeed(11) }

----------------------------------------------------------------------------
(* The specification *)

Boot ==
    \E rx \in RandVals, ry \in RandVals :
        /\ state = Booted(rx, ry)
        /\ FoodIsFree(state)
        /\ clock = BootClock
        /\ last = [op |-> "bootstrap"]
        /\ deadline = BootClock + RootFrames * ShortFrame

Resume(seeds) ==
    \E w \in seeds :
        /\ w.ok
        /\ state = w.state
        /\ clock = w.clock
        /\ last = w.last
        /\ deadline = w.clock + SeedFrames * ShortFrame

Init == Boot \/ Resume(Seeds)

InitHole == Resume(HoleSeeds)

InitTail == Resume(TailSeeds)

\* The draws to try: all of them where the handler spawns food, one otherwise.
Draws(probe) == IF probe.spawned THEN RandVals \X RandVals ELSE { <<AnyRand, AnyRand>> }

KeyDown ==
    \E k \in Keys :
        \E d \in Draws(onKeyDown(World, k, AnyRand, AnyRand)) :
            Becomes(onKeyDown(World, k, d[1], d[2]))

PlayClick ==
    \E d \in RandVals \X RandVals :
        Becomes(onPlayClick(World, d[1], d[2]))

TouchEnd ==
    \E g \in Gestures :
        \E d \in Draws(onTouchEnd(World, g[1], g[2], AnyRand, AnyRand)) :
            Becomes(onTouchEnd(World, g[1], g[2], d[1], d[2]))

Frame ==
    \E dt \in FrameDeltas :
        /\ clock + dt <= deadline
        /\ \E d \in Draws(loop(World, clock + dt, AnyRand, AnyRand)) :
               Becomes(loop(World, clock + dt, d[1], d[2]))

Next == KeyDown \/ PlayClick \/ TouchEnd \/ Frame

Spec == Init /\ [][Next]_vars

\* Play observed from after a step onto the tail's cell.
SpecHole == InitHole /\ [][Next]_vars

\* Play observed from the food lying under the tail.
SpecTail == InitTail /\ [][Next]_vars

----------------------------------------------------------------------------
(* Vocabulary of the properties *)

\* The cells of a snake, as a set.
CellsOf(snake) == { snake[i] : i \in 1..Len(snake) }

IsReverse(a, b) == a.x + b.x = 0 /\ a.y + b.y = 0

\* This transition is a frame whose loop() ran step().
Ticked == clock' # clock /\ last'.op = "step"

\* After a step().
AfterStep == last.op = "step"

\* The candidate head of the step() just run lay one cell beyond the grid.
BeyondGrid(nh, grid) == nh.x = -1 \/ nh.x = grid \/ nh.y = -1 \/ nh.y = grid

----------------------------------------------------------------------------
(* C1: immediately after step() returns, the occupancy index state.occupied *)
(* is exactly the set of (keys of the) cells of state.snake.                *)
C1_OccupancyIsSnake ==
    AfterStep => state.occupied = KeysOf(state.snake)

(* C2: after every step(), the cells of the snake are pairwise distinct.    *)
C2_SnakeCellsDistinct ==
    AfterStep =>
        \A i, j \in 1..Len(state.snake) : i # j => state.snake[i] # state.snake[j]

(* C3: a step() whose candidate head is the cell of a snake segment other   *)
(* than the tail ends the run: the phase becomes GameOver.                  *)
C3_BodyHitEndsRun ==
    (AfterStep /\ last.onBody) => state.gameOver

(* C4: in every reachable state the food cell is not a cell of the snake.   *)
C4_FoodOffSnake ==
    state.food \notin CellsOf(state.snake)

(* C5: a step() whose candidate head lies one cell beyond the grid (x = -1, *)
(* x = gridSize, y = -1 or y = gridSize) sets GameOver, records the end     *)
(* timestamp, and leaves snake, occupancy index, score, food and grid size  *)
(* as they were.                                                            *)
C5_WallCollisionEndsRun ==
    [][ (Ticked /\ BeyondGrid(last'.nh, state.grid)) =>
            /\ state'.gameOver
            /\ state'.endedAt = clock'
            /\ state'.snake = state.snake
            /\ state'.occupied = state.occupied
            /\ state'.score = state.score
            /\ state'.food = state.food
            /\ state'.grid = state.grid ]_vars

\* A step() ran the head into the right wall after the snake had eaten.
C5_Witness ==
    /\ AfterStep
    /\ last.wall
    /\ last.nh.x = state.grid
    /\ state.gameOver
    /\ state.endedAt = clock
    /\ state.score > 0

(* C6: when the candidate head is the snake's current tail cell, a move     *)
(* that does not eat is no collision and the head takes the tail's cell; a  *)
(* move that would eat (the food is on that cell) is a collision and ends   *)
(* the run.                                                                 *)
C6_TailCellRule ==
    (AfterStep /\ last.onTail) =>
        IF last.willEat
        THEN state.gameOver
        ELSE ~state.gameOver /\ state.snake[1] = last.nh

(* C7 as stated: queueDir(d) never appends the exact reverse of the active  *)
(* direction state.dir, whether or not the queue already holds a turn.      *)
C7_NeverReverseOfActive ==
    last.op = "queueDir" =>
        ~IsReverse(state.queuedDirs[Len(state.queuedDirs)], state.dir)

(* C7 amended: queueDir(d) never appends the exact reverse of the direction *)
(* it compares d with: the last queued direction if the queue holds a       *)
(* pending turn, the active direction state.dir only if the queue is empty. *)
C7_NeverReverseOfReference ==
    [][ Len(state'.queuedDirs) = Len(state.queuedDirs) + 1 =>
            LET nd  == state'.queuedDirs[Len(state'.queuedDirs)]
                ref == IF Len(state.queuedDirs) > 0
                       THEN state.queuedDirs[Len(state.queuedDirs)]
                       ELSE state.dir
            IN  /\ ~IsReverse(nd, ref)
                /\ state'.dir = state.dir ]_vars

\* A turn was appended behind a pending one, and it reverses the active direction.
C7_Witness ==
    /\ last.op = "queueDir"
    /\ Len(state.queuedDirs) = 2
    /\ IsReverse(state.queuedDirs[2], state.dir)

(* C8: in any phase, after any inputs, ticks and restarts, the direction    *)
(* queue holds at most 2 entries.                                           *)
C8_QueueAtMostTwo ==
    Len(state.queuedDirs) <= 2

\* A second turn was just queued behind a pending one during play.
C8_Witness ==
    /\ last.op = "queueDir"
    /\ Len(state.queuedDirs) = QueueCap
    /\ state.started /\ ~state.gameOver

(* C9: a step() that does not collide leaves the snake one cell longer if   *)
(* the candidate head is the food cell, and as long as before otherwise,    *)
(* also when the eat tick grows the grid.                                   *)
C9_LengthByEating ==
    [][ (Ticked /\ ~state'.gameOver) =>
            Len(state'.snake) =
                Len(state.snake) + (IF last'.nh = state.food THEN 1 ELSE 0) ]_vars

C9_Witness ==
    AfterStep /\ last.willEat /\ last.grew /\ ~state.gameOver

(* C10: within a run the grid size never decreases; a step() changes it by  *)
(* 0 or by exactly 2, nothing else changes it; it never exceeds 36.         *)
C10_GridGrowth ==
    [][ last'.op # "resetGame" =>
            /\ state'.grid - state.grid \in {0, GridIncrement}
            /\ state'.grid # state.grid => Ticked
            /\ state'.grid <= MaxGrid ]_vars

\* An eat tick at the ceiling: the fill is at or above 0.4, the grid stays 36.
C10_Witness ==
    /\ AfterStep /\ last.willEat /\ ~state.gameOver
    /\ state.grid = MaxGrid
    /\ Len(state.snake) * FillDen >= state.grid * state.grid * FillNum

\* The cells of a snake moved by (1, 1), as growGridIfNeeded() moves them.
ShiftedBy1(snake) == [i \in 1..Len(snake) |-> Cell(snake[i].x + 1, snake[i].y + 1)]

(* C11: an eat tick that does not grow the grid leaves the candidate head   *)
(* prepended to the whole previous snake, the score one higher, the grid    *)
(* size as it was, and the new food on a cell that is not on the new snake. *)
C11_EatTick ==
    [][ (Ticked /\ last'.willEat /\ ~last'.collided /\ ~last'.grew) =>
            /\ state'.snake = <<last'.nh>> \o state.snake
            /\ state'.score = state.score + 1
            /\ state'.grid = state.grid
            /\ state'.food \notin CellsOf(state'.snake) ]_vars

(* C12: a restart issued in phase GameOver, whatever the ended run had come *)
(* to, yields score 0, phase Playing, the initial grid size, the initial    *)
(* direction and snake, an empty direction queue, and an occupancy index    *)
(* that is the set of the cells of the new snake.                           *)
C12_RestartResets ==
    [][ (state.gameOver /\ last'.op = "resetGame") =>
            /\ state'.score = 0
            /\ state'.started /\ ~state'.gameOver
            /\ state'.grid = StartGrid
            /\ state'.dir = Right
            /\ state'.snake = InitialSnake
            /\ state'.queuedDirs = << >>
            /\ state'.occupied = KeysOf(state'.snake) ]_vars

\* A restart after a run that ended with points, a grown grid and a pending turn.
C12_Witness ==
    /\ last.op = "resetGame"
    /\ last.from.gameOver
    /\ last.from.score > 0
    /\ last.from.grid > StartGrid
    /\ last.from.queued > 0
    /\ state.score = 0 /\ state.grid = StartGrid

\* The phase of the state machine: Welcome, Playing or GameOver.
Phase(s) == IF ~s.started THEN "Welcome" ELSE IF s.gameOver THEN "GameOver" ELSE "Playing"

\* Snake, grid, score, direction queue, food and occupancy index of a fresh run.
Reinitialized(s) ==
    /\ s.snake = InitialSnake
    /\ s.grid = StartGrid
    /\ s.score = 0
    /\ s.queuedDirs = << >>
    /\ s.occupied = KeysOf(InitialSnake)
    /\ s.food \notin CellsOf(InitialSnake)
    /\ ~isWallCollision(s, s.food.x, s.food.y)

(* C13 as stated: each phase transition, Welcome to Playing on a start      *)
(* input, Playing to GameOver on a collision, GameOver to Playing on a      *)
(* restart input, fully reinitializes snake, grid, score, direction queue,  *)
(* food and occupancy index.                                                *)
C13_EveryTransitionReinitializes ==
    [][ Phase(state') # Phase(state) => Reinitialized(state') ]_vars

(* C13 amended: the transitions into Playing (from Welcome on a start       *)
(* input, from GameOver on a restart input) fully reinitialize snake, grid, *)
(* score, direction queue, food and occupancy index; the transition from    *)
(* Playing to GameOver on a collision reinitializes none of them: snake,    *)
(* grid, score, food and occupancy index stay as they were, and the queue   *)
(* only loses the turn that tick consumed.                                  *)
C13_StartsReinitializeCollisionFreezes ==
    [][ /\ (Phase(state) # "Playing" /\ Phase(state') = "Playing") =>
               last'.op = "resetGame" /\ Reinitialized(state')
        /\ (Phase(state) = "Playing" /\ Phase(state') = "GameOver") =>
               /\ Ticked /\ last'.collided
               /\ state'.snake = state.snake
               /\ state'.grid = state.grid
               /\ state'.score = state.score
               /\ state'.food = state.food
               /\ state'.occupied = state.occupied
               /\ state'.queuedDirs =
                      (IF state.queuedDirs = << >> THEN << >> ELSE Tail(state.queuedDirs)) ]_vars

\* A run on a grown grid has just ended by the snake running into itself.
C13_Witness ==
    /\ AfterStep /\ last.collided /\ ~last.wall
    /\ Phase(state) = "GameOver"
    /\ state.grid > StartGrid
    /\ state.score > 0

\* Phase Playing, and at ts a tick duration or more has passed since s.lastStepAt.
TickTimeReached(s, ts) ==
    Phase(s) = "Playing" /\ (ts - s.lastStepAt) * s.stepMs.den >= s.stepMs.num

\* A frame: the only event that moves the clock.
Framed == clock' # clock

\* The snake after exactly one step() of the kind last' tells.
OneStepOn(snake, rec) ==
    IF rec.collided THEN snake
    ELSE LET moved == <<rec.nh>> \o (IF rec.willEat THEN snake
                                     ELSE SubSeq(snake, 1, Len(snake) - 1))
         IN  IF rec.grew THEN ShiftedBy1(moved) ELSE moved

(* C14 as stated: loop(ts) runs step() at most once per frame, and runs it  *)
(* exactly when the phase is Playing and ts - lastStepAt >= stepMs, setting *)
(* lastStepAt = ts; ticks are never batched or caught up.                   *)
C14_TickExactlyWhenDue ==
    [][ Framed =>
            /\ (last'.op = "step") <=> TickTimeReached(state, clock')
            /\ last'.op = "step" =>
                   /\ state'.lastStepAt = clock'
                   /\ state'.snake = OneStepOn(state.snake, last') ]_vars

(* C14 amended: loop(ts) runs step() at most once per frame, and runs it    *)
(* exactly when the phase is Playing, lastStepAt is set (not 0) and         *)
(* ts - lastStepAt >= stepMs, setting lastStepAt = ts; a frame that finds   *)
(* lastStepAt unset (0: the first frame after bootstrap, start or restart)  *)
(* records ts as lastStepAt and runs no step(), however large ts is; ticks  *)
(* are never batched or caught up.                                          *)
C14_TickWhenDueAndSet ==
    [][ Framed =>
            /\ (last'.op = "step") <=>
                   (state.lastStepAt # 0 /\ TickTimeReached(state, clock'))
            /\ last'.op = "step" =>
                   /\ state'.lastStepAt = clock'
                   /\ state'.snake = OneStepOn(state.snake, last')
            /\ last'.op # "step" =>
                   /\ state'.lastStepAt =
                          (IF state.lastStepAt = 0 THEN clock' ELSE state.lastStepAt)
                   /\ state'.snake = state.snake
                   /\ state'.score = state.score ]_vars

\* A frame came two tick durations or more after the last tick and ran one step().
C14_Witness ==
    /\ AfterStep /\ last.late /\ ~last.collided
    /\ state.lastStepAt = clock
    /\ state.grid = StartGrid

(* C15: once the phase is GameOver no frame runs step(): whatever frames    *)
(* and inputs follow, snake, occupancy index, score, food, grid size,       *)
(* active direction and end timestamp stay unchanged, and the phase stays   *)
(* GameOver, until an explicit restart.                                     *)
C15_GameOverIsFrozen ==
    [][ (state.gameOver /\ last'.op # "resetGame") =>
            /\ Framed => last'.op = "frame"
            /\ state'.gameOver
            /\ state'.snake = state.snake
            /\ state'.occupied = state.occupied
            /\ state'.score = state.score
            /\ state'.food = state.food
            /\ state'.grid = state.grid
            /\ state'.dir = state.dir
            /\ state'.endedAt = state.endedAt ]_vars

\* Frames worth two ticks and more have passed since the run ended with a turn pending.
C15_Witness ==
    /\ last.op = "frame"
    /\ state.gameOver
    /\ state.queuedDirs # << >>
    /\ (clock - state.endedAt) * state.stepMs.den >= 2 * state.stepMs.num

\* snake length < 0.4 * grid ** 2, with 0.4 as the fraction 2/5.
FillBelowThreshold(s) == Len(s.snake) * FillDen < s.grid * s.grid * FillNum

(* C16: whenever spawnFood() has run (at run start and on every eat tick,   *)
(* after the growth of that tick), the snake is shorter than 0.4 times the  *)
(* square of the grid size, also once the grid has reached its ceiling.     *)
C16_FillBelowThresholdAtSpawn ==
    (last.op = "resetGame" \/ (AfterStep /\ last.willEat /\ ~last.collided))
        => FillBelowThreshold(state)

\* Whether queueDir(d) should append d in state s.
Accepts(s, d) ==
    LET n   == Len(s.queuedDirs)
        ref == IF n > 0 THEN s.queuedDirs[n] ELSE s.dir
    IN  d \in Dirs /\ ~IsReverse(d, ref) /\ d # ref /\ n < 2

(* C17: queueDir(d), for d one of the four unit directions, appends d to    *)
(* the queue if and only if d is neither the reverse nor a duplicate of the *)
(* reference direction (the last queued one, or the active one if the queue *)
(* is empty) and the queue holds fewer than 2 entries; in every other case, *)
(* and for a null direction (a key that names no direction), nothing at    *)
(* all changes.                                                             *)
C17_QueueDirIff ==
    /\ \A d \in Dirs \cup {Null} :
           queueDir(state, d) =
               IF Accepts(state, d)
               THEN [state EXCEPT !.queuedDirs = Append(state.queuedDirs, d)]
               ELSE state
    /\ \A k \in {"x", "enter"} :
           keyDir(k) = Null /\ onKeyDown(World, k, AnyRand, AnyRand).state = state

\* A turn was just queued behind nothing during play: of the four directions
\* the next call now refuses two (the duplicate, the reverse) and takes two.
C17_Witness ==
    /\ last.op = "queueDir"
    /\ Phase(state) = "Playing"
    /\ Len(state.queuedDirs) = 1
    /\ state.queuedDirs[1] = last.nd
    /\ Cardinality({ d \in Dirs : Accepts(state, d) }) = 2

(* C18: directions are consumed first in, first out, one per tick: a tick   *)
(* takes the oldest queued direction as the active one and moves with it,   *)
(* leaving the later ones queued in order, so that of two directions queued *)
(* between ticks the first steers the next tick and the second the tick     *)
(* after; a tick with an empty queue keeps the active direction; between    *)
(* ticks the active direction stays and the queue only grows at its end.    *)
C18_FifoOnePerTick ==
    [][ /\ Ticked =>
               LET q    == state.queuedDirs
                   head == state.snake[1]
               IN  /\ state'.dir = (IF q # << >> THEN q[1] ELSE state.dir)
                   /\ state'.queuedDirs = (IF q # << >> THEN Tail(q) ELSE << >>)
                   /\ last'.nh = Cell(head.x + state'.dir.x, head.y + state'.dir.y)
                   /\ ~last'.collided =>
                          state'.snake[1] = (IF last'.grew
                                             THEN Cell(last'.nh.x + 1, last'.nh.y + 1)
                                             ELSE last'.nh)
        /\ (~Ticked /\ last'.op # "resetGame") =>
               /\ state'.dir = state.dir
               /\ Len(state'.queuedDirs) >= Len(state.queuedDirs)
               /\ SubSeq(state'.queuedDirs, 1, Len(state.queuedDirs)) = state.queuedDirs
      ]_vars

\* A tick has just moved with the first of two queued turns; the second still waits.
C18_Witness ==
    /\ AfterStep /\ ~last.collided
    /\ Len(state.queuedDirs) = 1
    /\ state.dir = last.dir
    /\ state.snake[1] = last.nh
    /\ state.snake[2] = Cell(last.nh.x - state.dir.x, last.nh.y - state.dir.y)
    /\ Len(state.snake) > 3
    /\ state.queuedDirs[1] # state.dir

(* C19: the grid grows only on an eat tick, and exactly when, with the new  *)
(* head prepended, the snake length is at least 0.4 times the square of the *)
(* grid size and the grid size is below 36; then the grid size goes up by   *)
(* 2, every snake cell, the new head included, moves by (+1, +1) with the   *)
(* order kept, every cell lies inside the new bounds, and the occupancy     *)
(* index is the set of the moved cells.                                     *)
C19_GrowthRule ==
    [][ /\ Ticked =>
               LET pre == <<last'.nh>> \o state.snake
                   due == /\ last'.nh = state.food
                          /\ ~last'.collided
                          /\ Len(pre) * FillDen >= state.grid * state.grid * FillNum
                          /\ state.grid < 36
               IN  /\ (state'.grid # state.grid) <=> due
                   /\ due =>
                          /\ state'.grid = state.grid + 2
                          /\ state'.snake = ShiftedBy1(pre)
                          /\ state'.occupied = KeysOf(ShiftedBy1(pre))
                          /\ \A i \in 1..Len(state'.snake) :
                                 /\ state'.snake[i].x \in 0..(state'.grid - 1)
                                 /\ state'.snake[i].y \in 0..(state'.grid - 1)
        /\ (~Ticked /\ last'.op # "resetGame") => state'.grid = state.grid ]_vars

\* The last growth of a run: an eat tick has just taken the grid from 34 to 36.
C19_Witness ==
    /\ AfterStep /\ last.grew
    /\ state.grid = MaxGrid
    /\ state.snake[1] = Cell(last.nh.x + 1, last.nh.y + 1)
    /\ state.occupied = KeysOf(state.snake)

(* C20: in every reachable state the tick duration times the grid size is   *)
(* 150 * 15 = 2250, and the tick duration strictly decreases whenever the   *)
(* grid grows.                                                              *)
C20_TickDurationInverse ==
    /\ [](state.stepMs.num * state.grid = 150 * 15 * state.stepMs.den)
    /\ [][ state'.grid > state.grid =>
               state'.stepMs.num * state.stepMs.den < state.stepMs.num * state'.stepMs.den
         ]_vars

\* The first growth of a run: the grid went from 8 to 10, the tick from 281.25 ms to 225 ms.
C20_Witness ==
    /\ AfterStep /\ last.grew
    /\ state.grid = StartGrid + GridIncrement
    /\ state.stepMs.num = 225 * state.stepMs.den

\* The world coordinates of the centre of a cell: x * TILE + TILE / 2.
CentreOf(c) == [x |-> c.x * TILE + TILE \div 2, y |-> c.y * TILE + TILE \div 2]

(* C21: after every eat tick the eat effect (state.eatWave) carries the     *)
(* coordinates of the eaten cell, that is of the cell the head occupies     *)
(* after the tick, in the grid coordinates of after the tick, also when     *)
(* the tick grew the grid and moved every snake cell.                       *)
C21_EatEffectOnHead ==
    (AfterStep /\ last.willEat /\ ~last.collided) =>
        /\ state.eatWave # Null
        /\ state.eatWave.x = CentreOf(state.snake[1]).x
        /\ state.eatWave.y = CentreOf(state.snake[1]).y

\* The step from cell b to cell a, as a direction.
StepFrom(b, a) == [x |-> a.x - b.x, y |-> a.y - b.y]

(* C22: whatever queueDir calls and ticks interleave within a run, the      *)
(* direction a tick moves with is never the reverse of the direction the    *)
(* previous tick of the run moved with (of the initial direction on the     *)
(* first tick), and the candidate head of step() is never the snake's       *)
(* second segment.                                                          *)
C22_NoReversalBetweenTicks ==
    [][ Ticked =>
            /\ ~IsReverse(state'.dir, state.dir)
            /\ last'.dir = state'.dir
            /\ state.dir = StepFrom(state.snake[2], state.snake[1])
            /\ last'.nh # state.snake[2] ]_vars

\* Two ticks have turned the snake round: the head now moves against the way
\* its fourth segment moved.
C22_Witness ==
    /\ AfterStep /\ ~last.collided
    /\ Len(state.snake) >= 4
    /\ state.dir = StepFrom(state.snake[2], state.snake[1])
    /\ IsReverse(state.dir, StepFrom(state.snake[4], state.snake[3]))

(* C23: in every reachable state the score is the snake length minus 3: it  *)
(* is 0 at run start, rises by exactly 1 on each eat tick and by 0 on every *)
(* other tick, is never negative, and the snake never has fewer than 3      *)
(* cells.                                                                   *)
C23_ScoreIsLengthMinus3 ==
    /\ [](/\ state.score = Len(state.snake) - 3
          /\ state.score >= 0
          /\ Len(state.snake) >= 3)
    /\ [][ /\ last'.op = "resetGame" => state'.score = 0
           /\ Ticked =>
                  state'.score = state.score +
                      (IF last'.nh = state.food /\ ~last'.collided THEN 1 ELSE 0)
           /\ (~Ticked /\ last'.op # "resetGame") => state'.score = state.score
         ]_vars

\* A tick that did not eat, after the snake had eaten twice or more.
C23_Witness ==
    /\ AfterStep /\ ~last.willEat /\ ~last.collided
    /\ state.score >= 2
    /\ Len(state.snake) = state.score + 3

====
